---- MODULE Spec2Model ----
(***************************************************************************)
(* The security middleware of the Kanwer Polytex website                   *)
(* (src/middleware.ts): a per-request CSP nonce, the policy built around   *)
(* it, the hardening headers, and the matcher that decides which requests  *)
(* the middleware sees; and the application code the nonce reaches: the    *)
(* Emotion cache factory, server rendering, the ThemeRegistry, the         *)
(* usePrefersDark hook and ThemeProviderClient.                            *)
(*                                                                         *)
(* Strings are TLA+ strings; every conversion the code applies to them     *)
(* (Base64, join, header-name folding, header-value normalisation, the     *)
(* matcher's regular expression) is computed character by character.       *)
(***************************************************************************)
EXTENDS Integers, Sequences, FiniteSets, TLC

(***************************************************************************)
(* Bounds of the model.                                                    *)
(***************************************************************************)
\* Requests the observer's log holds before the model stops taking more.
MaxRequests == 2
\* Distinct outcomes of one successful crypto.getRandomValues call.
NumDraws == 2
\* Pieces a probe path of the matcher is put together from.
MaxPathPieces == 3
\* Largest byte length generateNonce is called with on its own, besides the default.
MaxBytesLength == 6
\* Calls of generateNonce on its own in one behaviour.
MaxNonceCalls == 2
\* Calls of middleware() that are under way or over in one behaviour of the
\* statement-by-statement specification.
MaxInFlight == 2

VARIABLES
    isProd,         \* middleware.ts:32  process.env.NODE_ENV === 'production'
    cspReportUri,   \* middleware.ts:33  process.env.CSP_REPORT_URI (optional string)
    useReportOnly,  \* middleware.ts:34  process.env.CSP_REPORT_ONLY === 'true'
    allowlists,     \* middleware.ts:54-83  the five ALLOWED_*_HOSTS arrays
    handled,        \* what became of each inbound request, in arrival order
    rngCalls,       \* every call of crypto.getRandomValues, in order
    issued,         \* every value generateNonce returned, in order
    inflight        \* the middleware() calls under way, each with its locals

\* The module-level state of middleware.ts.
moduleState == <<isProd, cspReportUri, useReportOnly, allowlists>>

\* Everything the middleware and its observer hold.
serverVars == <<isProd, cspReportUri, useReportOnly, allowlists, handled, rngCalls, issued,
                inflight>>

VARIABLES
    caches,             \* createEmotionCache.ts:55-65  every cache created, with its argument
    rendered,           \* the documents server rendering produced, one per render
    environment,        \* where the theme code runs: server, or a kind of browser
    dataTheme,          \* document.documentElement's data-theme attribute (optional string)
    matches,            \* window.matchMedia('(prefers-color-scheme: dark)').matches
    listeners,          \* the listeners registered on the MediaQueryList
    subscriptions,      \* every subscribe() call, with the cleanup it returned
    notified,           \* per change event, the subscriptions whose onStoreChange ran
    mounted,            \* ThemeProviderClient.tsx:23  the component is mounted
    initialThemeFromDom,\* ThemeProviderClient.tsx:28-30  the attribute as read at mount
    systemPrefersDark,  \* ThemeProviderClient.tsx:25  the value usePrefersDark() returned last
    isDark,             \* ThemeProviderClient.tsx:33  the component's state
    stale,              \* the store changed and React has not re-rendered yet
    inserted,           \* ThemeRegistry: cache.inserted, the names the cache holds
    insertedRef,        \* ThemeRegistry: insertedRef.current, the pending names
    insertions,         \* every cache.insert call, in order
    flushes             \* what every flush() returned, in order

\* The Emotion cache factory and the rendering stage.
renderVars == <<caches, rendered>>

\* The browser (or server) the theme hook runs in, and the hook's subscriptions.
mediaVars == <<environment, dataTheme, matches, listeners, subscriptions, notified>>

\* The state of the mounted ThemeProviderClient.
themeVars == <<mounted, initialThemeFromDom, systemPrefersDark, isDark, stale>>

\* The state of one ThemeRegistry.
registryVars == <<inserted, insertedRef, insertions, flushes>>

clientVars == <<renderVars, mediaVars, themeVars, registryVars>>

vars == <<serverVars, clientVars>>

\* Nothing rendered, nothing mounted, nothing inserted: the state of the
\* application code while only the middleware is exercised.
InitClient ==
    /\ caches = <<>>
    /\ rendered = <<>>
    /\ environment = "server"
    /\ dataTheme = [defined |-> FALSE, value |-> ""]
    /\ matches = FALSE
    /\ listeners = {}
    /\ subscriptions = <<>>
    /\ notified = <<>>
    /\ mounted = FALSE
    /\ initialThemeFromDom = [defined |-> FALSE, value |-> ""]
    /\ systemPrefersDark = FALSE
    /\ isDark = FALSE
    /\ stale = FALSE
    /\ inserted = {}
    /\ insertedRef = <<>>
    /\ insertions = <<>>
    /\ flushes = <<>>

(***************************************************************************)
(* Strings.                                                                *)
(***************************************************************************)
CharAt(s, i) == SubSeq(s, i, i)

StartsWith(s, p) == Len(p) <= Len(s) /\ SubSeq(s, 1, Len(p)) = p

EndsWith(s, p) == Len(p) <= Len(s) /\ SubSeq(s, Len(s) - Len(p) + 1, Len(s)) = p

\* The first index >= i at which sub occurs in s, 0 when there is none. The
\* search goes through s in blocks of 32 positions.
RECURSIVE IndexOfFrom(_, _, _)
IndexOfFrom(s, sub, i) ==
    LET last == Len(s) - Len(sub) + 1
        hi == IF i + 31 < last THEN i + 31 ELSE last
        hits == {k \in i..hi : SubSeq(s, k, k + Len(sub) - 1) = sub}
    IN  IF i > last THEN 0
        ELSE IF hits # {} THEN CHOOSE k \in hits : \A m \in hits : k <= m
        ELSE IndexOfFrom(s, sub, hi + 1)

Contains(s, sub) == IndexOfFrom(s, sub, 1) # 0

\* Array.prototype.join
RECURSIVE Join(_, _)
Join(parts, sep) ==
    IF Len(parts) = 0 THEN ""
    ELSE IF Len(parts) = 1 THEN parts[1]
    ELSE parts[1] \o sep \o Join(Tail(parts), sep)

\* String.prototype.split, the inverse the properties read a joined string with.
RECURSIVE Split(_, _)
Split(s, sep) ==
    LET i == IndexOfFrom(s, sep, 1)
    IN  IF i = 0 THEN <<s>>
        ELSE <<SubSeq(s, 1, i - 1)>> \o Split(SubSeq(s, i + Len(sep), Len(s)), sep)

UpperLetters == "ABCDEFGHIJKLMNOPQRSTUVWXYZ"
LowerLetters == "abcdefghijklmnopqrstuvwxyz"

\* The lower-case letter of each upper-case ASCII letter.
FoldMap ==
    [c \in {CharAt(UpperLetters, i) : i \in 1..Len(UpperLetters)} |->
        CharAt(LowerLetters, IndexOfFrom(UpperLetters, c, 1))]

LowerChar(c) == IF c \in DOMAIN FoldMap THEN FoldMap[c] ELSE c

RECURSIVE ToLowerFrom(_, _)
ToLowerFrom(s, i) ==
    IF i > Len(s) THEN "" ELSE LowerChar(CharAt(s, i)) \o ToLowerFrom(s, i + 1)

\* Header names are case-insensitive: Headers folds them to lower case.
ToLowerCase(s) == ToLowerFrom(s, 1)

HttpWhitespace == {" ", "\t", "\n", "\r"}

\* Headers.set normalises a value: leading and trailing HTTP whitespace is stripped.
RECURSIVE NormalizeValue(_)
NormalizeValue(v) ==
    IF Len(v) = 0 THEN v
    ELSE IF CharAt(v, 1) \in HttpWhitespace THEN NormalizeValue(Tail(v))
    ELSE IF CharAt(v, Len(v)) \in HttpWhitespace
         THEN NormalizeValue(SubSeq(v, 1, Len(v) - 1))
    ELSE v

(***************************************************************************)
(* Headers objects: a function from folded names to values.                *)
(***************************************************************************)
NoHeaders == [n \in {} |-> ""]

HeadersSet(h, name, value) ==
    LET key == ToLowerCase(name)
        normalized == NormalizeValue(value)
    IN  [n \in DOMAIN h \cup {key} |-> IF n = key THEN normalized ELSE h[n]]

HeadersHas(h, name) == ToLowerCase(name) \in DOMAIN h

HeadersGet(h, name) == h[ToLowerCase(name)]

(***************************************************************************)
(* generateNonce (middleware.ts:41-48).                                    *)
(***************************************************************************)
DefaultBytesLength == 16

Base64Alphabet == "ABCDEFGHIJKLMNOPQRSTUVWXYZabcdefghijklmnopqrstuvwxyz0123456789+/"

Base64Digit(v) == CharAt(Base64Alphabet, v + 1)

\* A bug the encoding could have: the = padding left off (as Base64url does).
RECURSIVE Btoa_NoPadding(_)
Btoa_NoPadding(b) ==
    IF Len(b) = 0 THEN ""
    ELSE IF Len(b) = 1
    THEN Base64Digit(b[1] \div 4) \o Base64Digit((b[1] % 4) * 16)
    ELSE IF Len(b) = 2
    THEN Base64Digit(b[1] \div 4)
         \o Base64Digit((b[1] % 4) * 16 + b[2] \div 16)
         \o Base64Digit((b[2] % 16) * 4)
    ELSE Base64Digit(b[1] \div 4)
         \o Base64Digit((b[1] % 4) * 16 + b[2] \div 16)
         \o Base64Digit((b[2] % 16) * 4 + b[3] \div 64)
         \o Base64Digit(b[3] % 64)
         \o Btoa_NoPadding(SubSeq(b, 4, Len(b)))

\* btoa on a binary string, given as the sequence of its character codes (0..255).
RECURSIVE Btoa(_)
Btoa(b) ==
    IF Len(b) = 0 THEN ""
    ELSE IF Len(b) = 1
    THEN Base64Digit(b[1] \div 4) \o Base64Digit((b[1] % 4) * 16) \o "=="
    ELSE IF Len(b) = 2
    THEN Base64Digit(b[1] \div 4)
         \o Base64Digit((b[1] % 4) * 16 + b[2] \div 16)
         \o Base64Digit((b[2] % 16) * 4) \o "="
    ELSE Base64Digit(b[1] \div 4)
         \o Base64Digit((b[1] % 4) * 16 + b[2] \div 16)
         \o Base64Digit((b[2] % 16) * 4 + b[3] \div 64)
         \o Base64Digit(b[3] % 64)
         \o Btoa(SubSeq(b, 4, Len(b)))

\* String.fromCharCode over the filled Uint8Array: one code unit per byte.
BinaryString(bytes) == [i \in 1..Len(bytes) |-> bytes[i] % 256]

\* A bug generateNonce could have: the array is encoded without having been filled.
GenerateNonce_Unfilled(bytes) == Btoa(BinaryString([i \in 1..Len(bytes) |-> 0]))

\* generateNonce once crypto.getRandomValues has filled `bytes`.
GenerateNonce(bytes) == Btoa(BinaryString(bytes))

\* What crypto.getRandomValues may leave in a Uint8Array of n bytes: a sample of
\* NumDraws fillings (all zero, then ever more mixed bytes).
RandomFill(s, n) == [i \in 1..n |-> (s * (37 + 16 * i)) % 256]

RandomDraws(n) == {RandomFill(s, n) : s \in 0..(NumDraws - 1)}

\* One call of crypto.getRandomValues: it fills the array, or it throws (no secure
\* random source in the runtime).
RngOutcomes(n) ==
    {[ok |-> TRUE, bytes |-> b] : b \in RandomDraws(n)}
        \cup {[ok |-> FALSE, bytes |-> <<>>]}

(***************************************************************************)
(* Allowlists (middleware.ts:54-83).                                       *)
(***************************************************************************)
ALLOWED_SCRIPT_HOSTS == <<"'self'">>
\* What line 64 rules out: 'unsafe-inline' among the style sources.
ALLOWED_STYLE_HOSTS_UnsafeInline ==
    <<"'self'", "https://fonts.googleapis.com", "'unsafe-inline'">>

ALLOWED_STYLE_HOSTS == <<"'self'", "https://fonts.googleapis.com">>
ALLOWED_IMG_HOSTS == <<"'self'", "data:">>
ALLOWED_FONT_HOSTS == <<"'self'", "https://fonts.gstatic.com">>
ALLOWED_CONNECT_HOSTS == <<"'self'">>

(***************************************************************************)
(* An optional string (string | undefined).                                *)
(***************************************************************************)
Undefined == [defined |-> FALSE, value |-> ""]
Some(s) == [defined |-> TRUE, value |-> s]
\* JavaScript truthiness of string | undefined: defined and not empty.
Truthy(o) == o.defined /\ o.value # ""

(***************************************************************************)
(* buildCSP (middleware.ts:90-132), with the module-level flags it reads   *)
(* made parameters.                                                        *)
(***************************************************************************)
\* The five arrays as the file ships them.
ShippedAllowlists ==
    [script |-> ALLOWED_SCRIPT_HOSTS, style |-> ALLOWED_STYLE_HOSTS,
     img |-> ALLOWED_IMG_HOSTS, font |-> ALLOWED_FONT_HOSTS,
     connect |-> ALLOWED_CONNECT_HOSTS]

\* The template literals of lines 93-120 over the arrays `lists`.
DirectivesOver(lists, nonce) ==
    << "default-src 'self'",
       "script-src " \o Join(lists.script, " ") \o " 'nonce-" \o nonce \o "'",
       "style-src " \o Join(lists.style, " ") \o " 'nonce-" \o nonce \o "'",
       "img-src " \o Join(lists.img, " "),
       "font-src " \o Join(lists.font, " "),
       "connect-src " \o Join(lists.connect, " "),
       "object-src 'none'",
       "frame-ancestors 'none'",
       "base-uri 'self'",
       "form-action 'self'" >>

\* A bug buildCSP could have: font-src written before img-src.
FixedDirectives_FontBeforeImages(nonce) ==
    LET d == DirectivesOver(allowlists, nonce)
    IN  [d EXCEPT ![4] = d[5], ![5] = d[4]]

\* A bug buildCSP could have: the nonce written into img-src as well.
FixedDirectives_NonceOnImages(nonce) ==
    LET d == DirectivesOver(allowlists, nonce)
    IN  [d EXCEPT ![4] = @ \o " 'nonce-" \o nonce \o "'"]

\* The directives of lines 93-120, over the arrays of the module.
FixedDirectives(nonce) == DirectivesOver(allowlists, nonce)

\* A bug buildCSP could have: upgrade-insecure-requests pushed after report-uri.
BuildCSPWith_UpgradeLast(nonce, prod, reportUri) ==
    Join(FixedDirectives(nonce)
            \o (IF Truthy(reportUri) THEN <<"report-uri " \o reportUri.value>> ELSE <<>>)
            \o (IF prod THEN <<"upgrade-insecure-requests">> ELSE <<>>), "; ")

\* A bug buildCSP could have: `cspReportUri !== undefined` for `cspReportUri`.
BuildCSPWith_ReportWhenDefined(nonce, prod, reportUri) ==
    Join(FixedDirectives(nonce)
            \o (IF prod THEN <<"upgrade-insecure-requests">> ELSE <<>>)
            \o (IF reportUri.defined THEN <<"report-uri " \o reportUri.value>> ELSE <<>>),
         "; ")

BuildCSPWith(nonce, prod, reportUri) ==
    LET directives ==
            FixedDirectives(nonce)
                \o (IF prod THEN <<"upgrade-insecure-requests">> ELSE <<>>)
        pushed ==
            IF Truthy(reportUri)
            THEN Append(directives, "report-uri " \o reportUri.value)
            ELSE directives
    IN  Join(pushed, "; ")

\* A bug buildCSP could have: `directives` kept at module level, so that the
\* report-uri pushed by every earlier call is still in it.
BuildCSP_SharedDirectives(nonce) ==
    LET earlier == IF Truthy(cspReportUri)
                   THEN [k \in 1..Len(issued) |-> "report-uri " \o cspReportUri.value]
                   ELSE <<>>
    IN  Join(<<BuildCSPWith(nonce, isProd, cspReportUri)>> \o earlier, "; ")

\* A bug buildCSP could have: the production policy built in every mode.
BuildCSP_AlwaysProduction(nonce) == BuildCSPWith(nonce, TRUE, cspReportUri)

BuildCSP(nonce) == BuildCSPWith(nonce, isProd, cspReportUri)

(***************************************************************************)
(* applySecurityHeaders (middleware.ts:138-200).                           *)
(***************************************************************************)
PermissionsPolicy ==
    Join(<< "accelerometer=()", "ambient-light-sensor=()", "autoplay=()",
            "battery=()", "camera=()", "display-capture=()", "document-domain=()",
            "encrypted-media=()", "fullscreen=(self)", "geolocation=()",
            "gyroscope=()", "hid=()", "magnetometer=()", "microphone=()",
            "midi=()", "payment=()", "picture-in-picture=(self)",
            "publickey-credentials-get=()", "screen-wake-lock=()", "sync-xhr=()",
            "usb=()", "vr=()", "xr-spatial-tracking=()" >>, ", ")

\* A bug applySecurityHeaders could have: HSTS sent by production processes only.
HardeningHeaders_HstsInProduction ==
    << <<"Referrer-Policy", "strict-origin-when-cross-origin">>,
       <<"X-Frame-Options", "DENY">>,
       <<"X-Content-Type-Options", "nosniff">>,
       <<"X-DNS-Prefetch-Control", "off">> >>
        \o (IF isProd
            THEN << <<"Strict-Transport-Security",
                      "max-age=63072000; includeSubDomains; preload">> >>
            ELSE <<>>)
        \o << <<"Permissions-Policy", PermissionsPolicy>>,
               <<"X-Permitted-Cross-Domain-Policies", "none">>,
               <<"Cross-Origin-Resource-Policy", "same-origin">> >>

\* The res.headers.set calls of lines 140-188, in order.
HardeningHeaders ==
    << <<"Referrer-Policy", "strict-origin-when-cross-origin">>,
       <<"X-Frame-Options", "DENY">>,
       <<"X-Content-Type-Options", "nosniff">>,
       <<"X-DNS-Prefetch-Control", "off">>,
       <<"Strict-Transport-Security", "max-age=63072000; includeSubDomains; preload">>,
       <<"Permissions-Policy", PermissionsPolicy>>,
       <<"X-Permitted-Cross-Domain-Policies", "none">>,
       <<"Cross-Origin-Resource-Policy", "same-origin">> >>

RECURSIVE SetAll(_, _)
SetAll(h, pairs) ==
    IF Len(pairs) = 0 THEN h
    ELSE SetAll(HeadersSet(h, pairs[1][1], pairs[1][2]), Tail(pairs))

\* A bug applySecurityHeaders could have: the last call passes cspValue for nonce.
ApplySecurityHeaders_WrongArgument(resHeaders, cspValue, nonce) ==
    LET hardened == SetAll(resHeaders, HardeningHeaders)
        withCsp ==
            IF useReportOnly
            THEN HeadersSet(hardened, "Content-Security-Policy-Report-Only", cspValue)
            ELSE HeadersSet(hardened, "Content-Security-Policy", cspValue)
    IN  HeadersSet(withCsp, "x-csp-nonce", cspValue)

\* A bug applySecurityHeaders could have: the enforced header set outside the else.
ApplySecurityHeaders_NoElse(resHeaders, cspValue, nonce) ==
    LET hardened == SetAll(resHeaders, HardeningHeaders)
        reported ==
            IF useReportOnly
            THEN HeadersSet(hardened, "Content-Security-Policy-Report-Only", cspValue)
            ELSE hardened
        withCsp == HeadersSet(reported, "Content-Security-Policy", cspValue)
    IN  HeadersSet(withCsp, "x-csp-nonce", nonce)

\* The headers of `res` after applySecurityHeaders(res, cspValue, nonce).
ApplySecurityHeaders(resHeaders, cspValue, nonce) ==
    LET hardened == SetAll(resHeaders, HardeningHeaders)
        withCsp ==
            IF useReportOnly
            THEN HeadersSet(hardened, "Content-Security-Policy-Report-Only", cspValue)
            ELSE HeadersSet(hardened, "Content-Security-Policy", cspValue)
    IN  HeadersSet(withCsp, "x-csp-nonce", nonce)

(***************************************************************************)
(* config.matcher (middleware.ts:240-243): a slash, then a negative         *)
(* lookahead over seven literal alternatives and one "any characters, a    *)
(* dot, a listed extension, end of input" alternative, then any            *)
(* characters.  The path must match from its first to its last character.  *)
(***************************************************************************)
\* A bug the pattern could have: the `assets` alternative left out.
MatcherPrefixes_NoAssets ==
    << "_next/static", "_next/image", "favicon.ico", "sitemap.xml", "robots.txt",
       "manifest.json" >>

MatcherPrefixes ==
    << "_next/static", "_next/image", "favicon.ico", "sitemap.xml", "robots.txt",
       "manifest.json", "assets" >>

MatcherExtensions ==
    << "png", "jpg", "jpeg", "gif", "webp", "avif", "svg", "ico", "css", "js",
       "map", "txt", "xml", "json" >>

\* A bug the pattern could have: the extension alternative left out.
LookaheadMatches_NoExtensions(rest) ==
    \E i \in 1..Len(MatcherPrefixes) : StartsWith(rest, MatcherPrefixes[i])

\* The negative lookahead, tried at the character after the leading slash: an
\* alternative P matches when the rest begins with P; the last alternative
\* matches when the rest ends in a dot and a listed extension.
LookaheadMatches(rest) ==
    \/ \E i \in 1..Len(MatcherPrefixes) : StartsWith(rest, MatcherPrefixes[i])
    \/ \E j \in 1..Len(MatcherExtensions) : EndsWith(rest, "." \o MatcherExtensions[j])

\* Whether the platform hands a request for `path` to middleware().
MatcherAccepts(path) ==
    /\ StartsWith(path, "/")
    /\ ~LookaheadMatches(SubSeq(path, 2, Len(path)))

(***************************************************************************)
(* middleware (middleware.ts:206-230).                                     *)
(***************************************************************************)
\* A bug middleware could have: Headers.append for Headers.set, which joins the
\* nonce to a value the request already carries.
ForwardedHeaders_Append(reqHeaders, nonce) ==
    IF HeadersHas(reqHeaders, "x-csp-nonce")
    THEN HeadersSet(reqHeaders, "x-csp-nonce",
                    HeadersGet(reqHeaders, "x-csp-nonce") \o ", " \o nonce)
    ELSE HeadersSet(reqHeaders, "x-csp-nonce", nonce)

\* A bug middleware could have: new Headers() for new Headers(req.headers).
ForwardedHeaders_Fresh(reqHeaders, nonce) == HeadersSet(NoHeaders, "x-csp-nonce", nonce)

\* A bug middleware could have: the header set only when the request has none.
ForwardedHeaders_KeepClient(reqHeaders, nonce) ==
    IF HeadersHas(reqHeaders, "x-csp-nonce")
    THEN reqHeaders
    ELSE HeadersSet(reqHeaders, "x-csp-nonce", nonce)

\* new Headers(req.headers) with x-csp-nonce set (lines 212-213).
ForwardedHeaders(reqHeaders, nonce) == HeadersSet(reqHeaders, "x-csp-nonce", nonce)

\* A bug middleware could have: a request that carries a cookie is given the
\* non-production policy.
Answered_CookieDecides(req, nonce) ==
    [path |-> req.path, inbound |-> req.headers, matched |-> TRUE,
     outcome |-> "response", kind |-> "next", nonce |-> nonce,
     forwarded |-> ForwardedHeaders(req.headers, nonce),
     headers |->
        ApplySecurityHeaders(NoHeaders,
            BuildCSPWith(nonce, isProd /\ ~HeadersHas(req.headers, "cookie"),
                         cspReportUri),
            nonce)]

\* The record of a request middleware() answered.
Answered(req, nonce) ==
    [path |-> req.path, inbound |-> req.headers, matched |-> TRUE,
     outcome |-> "response", kind |-> "next", nonce |-> nonce,
     forwarded |-> ForwardedHeaders(req.headers, nonce),
     headers |-> ApplySecurityHeaders(NoHeaders, BuildCSP(nonce), nonce)]

\* A bug middleware could have: a failing random source caught, and the nonce
\* made of the unfilled array.
Middleware_Fallback(req, rng) ==
    IF ~rng.ok
    THEN Answered(req, GenerateNonce([i \in 1..DefaultBytesLength |-> 0]))
    ELSE Answered(req, GenerateNonce(rng.bytes))

\* What middleware(req) does when its crypto.getRandomValues call ends as `rng`:
\* it throws out of generateNonce (line 43), or returns NextResponse.next with the
\* forwarded request headers and the security headers.
Middleware(req, rng) ==
    IF ~rng.ok
    THEN [path |-> req.path, inbound |-> req.headers, matched |-> TRUE,
          outcome |-> "threw", kind |-> "", nonce |-> "",
          forwarded |-> NoHeaders, headers |-> NoHeaders]
    ELSE Answered(req, GenerateNonce(rng.bytes))

\* A request the matcher rejects goes on to its route untouched by this file.
Bypass(req) ==
    [path |-> req.path, inbound |-> req.headers, matched |-> FALSE,
     outcome |-> "bypassed", kind |-> "", nonce |-> "",
     forwarded |-> req.headers, headers |-> NoHeaders]

(***************************************************************************)
(* Inputs.                                                                 *)
(***************************************************************************)
\* Values of process.env.NODE_ENV, CSP_REPORT_URI, CSP_REPORT_ONLY at start-up.
NodeEnvs == {Undefined, Some("production"), Some("development")}

\* Unset, empty, or a report URI (the one of the specification's test and the one
\* of the comment at line 33).
ReportUris ==
    {Undefined, Some(""), Some("https://example.test/r"),
     Some("https://example.report-uri.com/r/d/csp/enforce")}

ReportOnlyValues == {Undefined, Some("true"), Some("false"), Some("TRUE")}

BrowserHeaders == HeadersSet(NoHeaders, "Accept", "text/html")

\* A client that sends its own x-csp-nonce, and a cookie.
ForgedHeaders ==
    HeadersSet(HeadersSet(BrowserHeaders, "X-CSP-Nonce", "Zm9yZ2Vk"), "Cookie", "sid=1")

\* The requests of the main specification: a page, a page asked for by a client
\* that forges the nonce header, a static asset, and a page whose name begins
\* with `assets`.
Requests ==
    { [path |-> "/", headers |-> BrowserHeaders],
      [path |-> "/about", headers |-> ForgedHeaders],
      [path |-> "/_next/static/chunk.js", headers |-> BrowserHeaders],
      [path |-> "/assets-catalogue", headers |-> BrowserHeaders] }

\* Probe paths of the matcher: a piece that opens a segment, then up to
\* MaxPathPieces - 1 more pieces; the named root files and the example of the
\* specification; and one file of every listed extension.
SlashPieces ==
    {"/", "/assets", "/en", "/logo", "/_next/static", "/_next/image",
     "/favicon.ico", "/robots.txt"}

TailPieces == {"-catalogue", "ns", ".png", ".js", ".json"}

RECURSIVE PathsOf(_)
PathsOf(n) ==
    IF n <= 1 THEN SlashPieces
    ELSE LET shorter == PathsOf(n - 1)
         IN  shorter \cup {p \o q : p \in shorter, q \in SlashPieces \cup TailPieces}

ProbePaths ==
    PathsOf(MaxPathPieces)
        \cup {"/sitemap.xml", "/manifest.json", "/_next/static/chunk.js"}
        \cup {"/img/file." \o MatcherExtensions[j] : j \in 1..Len(MatcherExtensions)}

ProbeRequests == {[path |-> p, headers |-> BrowserHeaders] : p \in ProbePaths}

(***************************************************************************)
(* The state machine.                                                      *)
(***************************************************************************)
Init ==
    /\ \E nodeEnv \in NodeEnvs : isProd = (nodeEnv = Some("production"))
    /\ cspReportUri \in ReportUris
    /\ \E reportOnly \in ReportOnlyValues : useReportOnly = (reportOnly = Some("true"))
    /\ allowlists = ShippedAllowlists
    /\ handled = <<>>
    /\ rngCalls = <<>>
    /\ issued = <<>>
    /\ inflight = {}
    /\ InitClient

\* A request of `reqs` that the matcher accepts: middleware() runs, drawing its
\* random bytes.
Handle(reqs, limit) ==
    /\ Len(handled) < limit
    /\ \E req \in reqs :
        /\ MatcherAccepts(req.path)
        /\ \E rng \in RngOutcomes(DefaultBytesLength) :
            /\ handled' = Append(handled, Middleware(req, rng))
            /\ rngCalls' = Append(rngCalls, [request |-> Len(handled) + 1,
                                              ok |-> rng.ok, bytes |-> rng.bytes])
            /\ issued' = IF rng.ok
                          THEN Append(issued, [bytesLength |-> DefaultBytesLength,
                                               nonce |-> GenerateNonce(rng.bytes)])
                          ELSE issued
    /\ UNCHANGED <<moduleState, inflight>>
    /\ UNCHANGED clientVars

\* A request of `reqs` that the matcher rejects: middleware() is not called.
Skip(reqs, limit) ==
    /\ Len(handled) < limit
    /\ \E req \in reqs :
        /\ ~MatcherAccepts(req.path)
        /\ handled' = Append(handled, Bypass(req))
    /\ UNCHANGED <<moduleState, rngCalls, issued, inflight>>
    /\ UNCHANGED clientVars

HandleRequest == Handle(Requests, MaxRequests)

SkipRequest == Skip(Requests, MaxRequests)

Next == HandleRequest \/ SkipRequest

Spec == Init /\ [][Next]_vars

(***************************************************************************)
(* The matcher alone: one request of the probe paths per behaviour, in a   *)
(* development process with no report URI.                                 *)
(***************************************************************************)
InitMatcher ==
    /\ isProd = FALSE
    /\ cspReportUri = Undefined
    /\ useReportOnly = FALSE
    /\ allowlists = ShippedAllowlists
    /\ handled = <<>>
    /\ rngCalls = <<>>
    /\ issued = <<>>
    /\ inflight = {}
    /\ InitClient

HandleProbe == Handle(ProbeRequests, 1)

SkipProbe == Skip(ProbeRequests, 1)

NextMatcher == HandleProbe \/ SkipProbe

SpecMatcher == InitMatcher /\ [][NextMatcher]_vars

(***************************************************************************)
(* Reading the log and a policy back, for the properties.                  *)
(***************************************************************************)
Responses == {i \in 1..Len(handled) : handled[i].outcome = "response"}

\* The calls of crypto.getRandomValues made for the i-th request.
RngCallsOf(i) == {k \in 1..Len(rngCalls) : rngCalls[k].request = i}

EnforcedName == "Content-Security-Policy"
ReportOnlyName == "Content-Security-Policy-Report-Only"

\* The policies a response carries, under either header name.
EmittedPolicies(h) ==
    {HeadersGet(h, n) : n \in {m \in {EnforcedName, ReportOnlyName} : HeadersHas(h, m)}}

Directives(csp) == Split(csp, "; ")

\* Directive d bears the name (a word without spaces): the name is what stands
\* before its first space, or the whole of it.
HasName(d, name) == d = name \/ StartsWith(d, name \o " ")

Sources(d) == Tail(Split(d, " "))

\* Those of the directives ds that bear the name.
Named(ds, name) == SelectSeq(ds, LAMBDA d : HasName(d, name))

IsNonceSource(t) == Len(t) >= 8 /\ StartsWith(t, "'nonce-") /\ EndsWith(t, "'")

\* The values that follow 'nonce- in the sources of directive d.
NoncesIn(d) ==
    LET src == Sources(d)
    IN  {SubSeq(src[k], 8, Len(src[k]) - 1) :
            k \in {m \in 1..Len(src) : IsNonceSource(src[m])}}

\* Both nonce-bearing directives occur once in csp, each with the nonce `value`
\* and no other.
PolicyNonceIs(csp, value) ==
    LET all == Directives(csp)
    IN  \A name \in {"script-src", "style-src"} :
            LET ds == Named(all, name)
            IN  Len(ds) = 1 /\ NoncesIn(ds[1]) = {value}

\* The segments of a path: what stands between its slashes, after the leading one.
Segments(path) == Tail(Split(path, "/"))

(***************************************************************************)
(* C1. For every response of middleware(), the value after 'nonce- in the  *)
(* script-src and in the style-src directive of the CSP header it carries  *)
(* (enforced or report-only) is the value of its x-csp-nonce header.       *)
(***************************************************************************)
InvCspNonceIsResponseNonce ==
    \A i \in Responses :
        LET h == handled[i].headers
        IN  /\ EmittedPolicies(h) # {}
            /\ HeadersHas(h, "x-csp-nonce")
            /\ \A csp \in EmittedPolicies(h) :
                PolicyNonceIs(csp, HeadersGet(h, "x-csp-nonce"))

\* An enforced policy whose style-src carries the 24 characters of x-csp-nonce.
WitCspNonceIsResponseNonce ==
    \E i \in Responses :
        LET h == handled[i].headers
        IN  /\ HeadersHas(h, EnforcedName)
            /\ Len(HeadersGet(h, "x-csp-nonce")) = 24
            /\ Contains(HeadersGet(h, EnforcedName),
                        "'nonce-" \o HeadersGet(h, "x-csp-nonce") \o "'")

(***************************************************************************)
(* C2. For every response of middleware(), the x-csp-nonce request header  *)
(* forwarded to rendering is the nonce of the CSP header of that response. *)
(***************************************************************************)
InvForwardedNonceIsCspNonce ==
    \A i \in Responses :
        LET f == handled[i].forwarded
        IN  /\ HeadersHas(f, "x-csp-nonce")
            /\ EmittedPolicies(handled[i].headers) # {}
            /\ \A csp \in EmittedPolicies(handled[i].headers) :
                PolicyNonceIs(csp, HeadersGet(f, "x-csp-nonce"))

\* A request that came with an x-csp-nonce of its own, and was forwarded with
\* another.
WitForwardedNonceIsCspNonce ==
    \E i \in Responses :
        /\ HeadersHas(handled[i].inbound, "x-csp-nonce")
        /\ HeadersHas(handled[i].forwarded, "x-csp-nonce")
        /\ HeadersGet(handled[i].forwarded, "x-csp-nonce")
            # HeadersGet(handled[i].inbound, "x-csp-nonce")

(***************************************************************************)
(* C3. As claimed: no two requests are issued the same nonce.              *)
(***************************************************************************)
InvNonceNeverReused ==
    \A i, j \in Responses : i # j => handled[i].nonce # handled[j].nonce

(***************************************************************************)
(* C3, amended. Every request middleware() handles makes one call of the   *)
(* random source, and two requests are issued the same nonce only if the   *)
(* random source returned the same bytes to both.                          *)
(***************************************************************************)
InvSameNonceOnlyOnSameDraw ==
    /\ \A i \in 1..Len(handled) :
        Cardinality(RngCallsOf(i)) = IF handled[i].matched THEN 1 ELSE 0
    /\ \A i, j \in Responses :
        (i # j /\ handled[i].nonce = handled[j].nonce)
            => \A k \in RngCallsOf(i), m \in RngCallsOf(j) :
                rngCalls[k].bytes = rngCalls[m].bytes

\* Two requests whose draws differ, and whose nonces differ.
WitSameNonceOnlyOnSameDraw ==
    \E i, j \in Responses :
        /\ handled[i].nonce # handled[j].nonce
        /\ \E k \in RngCallsOf(i), m \in RngCallsOf(j) :
            rngCalls[k].bytes # rngCalls[m].bytes

(***************************************************************************)
(* C4. Every response carries exactly one of the two CSP headers: the      *)
(* report-only one in report-only mode, the enforced one otherwise.        *)
(***************************************************************************)
InvExactlyOneCspHeader ==
    \A i \in Responses :
        LET h == handled[i].headers
        IN  /\ HeadersHas(h, ReportOnlyName) = useReportOnly
            /\ HeadersHas(h, EnforcedName) = ~useReportOnly

\* A response of a process in report-only mode.
WitExactlyOneCspHeader ==
    \E i \in Responses :
        /\ useReportOnly
        /\ HeadersHas(handled[i].headers, ReportOnlyName)
        /\ ~HeadersHas(handled[i].headers, EnforcedName)

(***************************************************************************)
(* C5. A request whose random-source call fails gets no response: nothing  *)
(* is forwarded and no header is written; and every response there is      *)
(* rests on a call that filled all its bytes.                              *)
(***************************************************************************)
InvNoResponseWithoutEntropy ==
    /\ \A k \in 1..Len(rngCalls) :
        ~rngCalls[k].ok =>
            LET e == handled[rngCalls[k].request]
            IN  /\ e.outcome = "threw"
                /\ e.headers = NoHeaders
                /\ e.forwarded = NoHeaders
    /\ \A i \in Responses :
        /\ \E k \in RngCallsOf(i) :
            rngCalls[k].ok /\ Len(rngCalls[k].bytes) = DefaultBytesLength
        /\ HeadersHas(handled[i].headers, "x-csp-nonce")
        /\ HeadersGet(handled[i].headers, "x-csp-nonce") # ""

\* A request during which crypto.getRandomValues threw.
WitNoResponseWithoutEntropy ==
    \E k \in 1..Len(rngCalls) :
        ~rngCalls[k].ok /\ handled[rngCalls[k].request].outcome = "threw"

(***************************************************************************)
(* C6. A request for a static-asset path (under /_next/static or           *)
(* /_next/image, one of the four named root files, or ending in a listed   *)
(* extension) is rejected by the matcher: no random bytes are drawn for    *)
(* it, no nonce is made and no header is written.                          *)
(***************************************************************************)
NamedRootFiles == {"/favicon.ico", "/sitemap.xml", "/robots.txt", "/manifest.json"}

HasListedExtension(path) ==
    \E j \in 1..Len(MatcherExtensions) : EndsWith(path, "." \o MatcherExtensions[j])

IsStaticAssetPath(path) ==
    \/ StartsWith(path, "/_next/static")
    \/ StartsWith(path, "/_next/image")
    \/ path \in NamedRootFiles
    \/ HasListedExtension(path)

InvStaticAssetsBypassMiddleware ==
    \A i \in 1..Len(handled) :
        IsStaticAssetPath(handled[i].path) =>
            /\ ~handled[i].matched
            /\ handled[i].outcome = "bypassed"
            /\ handled[i].nonce = ""
            /\ handled[i].headers = NoHeaders
            /\ handled[i].forwarded = handled[i].inbound
            /\ RngCallsOf(i) = {}

\* The request of the specification's scenario, passed by.
WitStaticAssetsBypassMiddleware ==
    \E i \in 1..Len(handled) :
        /\ handled[i].path = "/_next/static/chunk.js"
        /\ handled[i].outcome = "bypassed"
        /\ rngCalls = <<>>

(***************************************************************************)
(* C7. As claimed: every path that is not a static asset (not under        *)
(* /_next/static or /_next/image, with no assets segment, not a named root *)
(* file, not ending in a listed extension) is accepted by the matcher, and *)
(* the response to it carries the CSP and hardening headers.               *)
(***************************************************************************)
IsUnder(path, dir) == path = dir \/ StartsWith(path, dir \o "/")

IsDocumentPath(path) ==
    /\ ~IsUnder(path, "/_next/static")
    /\ ~IsUnder(path, "/_next/image")
    /\ \A k \in 1..Len(Segments(path)) : Segments(path)[k] # "assets"
    /\ path \notin NamedRootFiles
    /\ ~HasListedExtension(path)

InvEveryDocumentPathIntercepted ==
    \A i \in 1..Len(handled) :
        IsDocumentPath(handled[i].path) =>
            /\ handled[i].matched
            /\ handled[i].outcome = "response" =>
                /\ EmittedPolicies(handled[i].headers) # {}
                /\ HeadersHas(handled[i].headers, "X-Frame-Options")

(***************************************************************************)
(* C8. As claimed: every path with an `assets` segment, at any depth, is   *)
(* rejected by the matcher.                                                *)
(***************************************************************************)
InvAssetsSegmentExcludedAtAnyDepth ==
    \A i \in 1..Len(handled) :
        (\E k \in 1..Len(Segments(handled[i].path)) :
            Segments(handled[i].path)[k] = "assets")
            => ~handled[i].matched

(***************************************************************************)
(* C8, amended. Every path whose first segment is `assets` is rejected by  *)
(* the matcher; /en/assets/logo, where the segment lies deeper, is not.    *)
(***************************************************************************)
InvLeadingAssetsSegmentExcluded ==
    \A i \in 1..Len(handled) :
        /\ (Len(Segments(handled[i].path)) >= 1
            /\ Segments(handled[i].path)[1] = "assets")
                => (~handled[i].matched /\ handled[i].outcome = "bypassed")
        /\ handled[i].path = "/en/assets/logo" => handled[i].matched

\* /assets/logo, passed by.
WitLeadingAssetsSegmentExcluded ==
    \E i \in 1..Len(handled) :
        handled[i].path = "/assets/logo" /\ ~handled[i].matched

(***************************************************************************)
(* C9. A policy holds upgrade-insecure-requests exactly when the process   *)
(* is in production mode; and for the nonce of every response and the      *)
(* report URI of the process (every nonce drawn and every report URI, over *)
(* the behaviours), the production policy is the non-production policy     *)
(* with that one directive put in after form-action, before any            *)
(* report-uri, the policy emitted being the one of the process's mode.     *)
(***************************************************************************)
UpgradeDirective == "upgrade-insecure-requests"

\* p is d with the upgrade directive put in right after form-action, and nothing
\* but report-uri follows it.
IsUpgradeInsertion(d, p) ==
    \E k \in 1..Len(d) :
        /\ HasName(d[k], "form-action")
        /\ p = SubSeq(d, 1, k) \o <<UpgradeDirective>> \o SubSeq(d, k + 1, Len(d))
        /\ \A m \in (k + 1)..Len(d) : HasName(d[m], "report-uri")

InvUpgradeOnlyInProduction ==
    \A i \in Responses :
        LET d == Directives(BuildCSPWith(handled[i].nonce, FALSE, cspReportUri))
            p == Directives(BuildCSPWith(handled[i].nonce, TRUE, cspReportUri))
        IN  /\ Len(Named(d, UpgradeDirective)) = 0
            /\ Len(Named(p, UpgradeDirective)) = 1
            /\ IsUpgradeInsertion(d, p)
            /\ EmittedPolicies(handled[i].headers) # {}
            /\ \A csp \in EmittedPolicies(handled[i].headers) :
                Directives(csp) = IF isProd THEN p ELSE d

\* A production response with a report URI: the directive stands between
\* form-action and report-uri.
WitUpgradeOnlyInProduction ==
    \E i \in Responses :
        /\ isProd
        /\ Truthy(cspReportUri)
        /\ \A csp \in EmittedPolicies(handled[i].headers) :
            Contains(csp, "form-action 'self'; upgrade-insecure-requests; report-uri ")

(***************************************************************************)
(* C10. With no report URI configured (unset or empty) a policy holds no   *)
(* report-uri and a response is built all the same; with a report URI u    *)
(* configured it holds exactly one directive `report-uri u`, its last.     *)
(***************************************************************************)
InvReportUriDirective ==
    /\ \A k \in 1..Len(rngCalls) :
        rngCalls[k].ok => handled[rngCalls[k].request].outcome = "response"
    /\ \A i \in Responses :
        /\ EmittedPolicies(handled[i].headers) # {}
        /\ \A csp \in EmittedPolicies(handled[i].headers) :
            LET ds == Directives(csp)
            IN  IF Truthy(cspReportUri)
                THEN /\ Len(Named(ds, "report-uri")) = 1
                     /\ ds[Len(ds)] = "report-uri " \o cspReportUri.value
                ELSE ~Contains(csp, "report-uri")

\* A response of a process whose CSP_REPORT_URI is set, and empty.
WitReportUriDirective ==
    \E i \in Responses :
        /\ cspReportUri = Some("")
        /\ \A csp \in EmittedPolicies(handled[i].headers) :
            EndsWith(csp, IF isProd THEN UpgradeDirective ELSE "form-action 'self'")


(***************************************************************************)
(* One request per process, in every configuration of the environment and  *)
(* with the arrays as shipped: buildCSP, generateNonce and                 *)
(* applySecurityHeaders as functions of the nonce and the configuration.   *)
(***************************************************************************)
HandlePolicy == Handle({req \in Requests : MatcherAccepts(req.path)}, 1)

NextPolicy == HandlePolicy

SpecPolicy == Init /\ [][NextPolicy]_vars

\* The name of a directive: what stands before its first space.
NameOf(d) == Head(Split(d, " "))

\* The names of the directives of a policy, in order.
NamesOf(csp) ==
    LET ds == Directives(csp)
    IN  [k \in 1..Len(ds) |-> NameOf(ds[k])]

(***************************************************************************)
(* C11. The directives of every policy emitted are named, in this order,   *)
(* default-src, script-src, style-src, img-src, font-src, connect-src,     *)
(* object-src, frame-ancestors, base-uri, form-action, then                *)
(* upgrade-insecure-requests in production, then report-uri when a report  *)
(* URI is configured; no name occurs twice.                                *)
(***************************************************************************)
ExpectedNames ==
    << "default-src", "script-src", "style-src", "img-src", "font-src",
       "connect-src", "object-src", "frame-ancestors", "base-uri", "form-action" >>
        \o (IF isProd THEN <<"upgrade-insecure-requests">> ELSE <<>>)
        \o (IF Truthy(cspReportUri) THEN <<"report-uri">> ELSE <<>>)

InvDirectiveOrder ==
    \A i \in Responses :
        /\ EmittedPolicies(handled[i].headers) # {}
        /\ \A csp \in EmittedPolicies(handled[i].headers) :
            LET names == NamesOf(csp)
            IN  /\ names = ExpectedNames
                /\ \A j, k \in 1..Len(names) : j # k => names[j] # names[k]

\* A production policy with a report URI: twelve directives.
WitDirectiveOrder ==
    \E i \in Responses :
        /\ isProd
        /\ Truthy(cspReportUri)
        /\ \A csp \in EmittedPolicies(handled[i].headers) : Len(Directives(csp)) = 12


(***************************************************************************)
(* The arrays as a deployment may edit them (the file invites additions,   *)
(* lines 52-83): as shipped, one of them emptied, or one of them holding   *)
(* an entry that is no CSP source expression.  One request per process.    *)
(***************************************************************************)
Categories == {"script", "style", "img", "font", "connect"}

\* An entry with a semicolon in it, and one with a space in it.
EntryWithSemicolon == "https://cdn.example.com; script-src *"
EntryWithSpace == "https://api.example.com https://evil.example"

AllowlistVariants ==
    {ShippedAllowlists}
        \cup {[ShippedAllowlists EXCEPT ![c] = <<>>] : c \in Categories}
        \cup {[ShippedAllowlists EXCEPT !.img = Append(@, EntryWithSemicolon)],
              [ShippedAllowlists EXCEPT !.connect = Append(@, EntryWithSpace)]}

InitAllowlists ==
    /\ \E nodeEnv \in NodeEnvs : isProd = (nodeEnv = Some("production"))
    /\ cspReportUri \in ReportUris
    /\ \E reportOnly \in ReportOnlyValues : useReportOnly = (reportOnly = Some("true"))
    /\ allowlists \in AllowlistVariants
    /\ handled = <<>>
    /\ rngCalls = <<>>
    /\ issued = <<>>
    /\ inflight = {}
    /\ InitClient

HandleConfigured == Handle({req \in Requests : MatcherAccepts(req.path)}, 1)

NextAllowlists == HandleConfigured

SpecAllowlists == InitAllowlists /\ [][NextAllowlists]_vars

\* The directive each array is written into.
CategoryDirective ==
    [script |-> "script-src", style |-> "style-src", img |-> "img-src",
     font |-> "font-src", connect |-> "connect-src"]

IsMalformedEntry(e) == Contains(e, ";") \/ \E w \in HttpWhitespace : Contains(e, w)

NonceSource(nonce) == "'nonce-" \o nonce \o "'"

InvNonceLastSource ==
    \A i \in Responses :
        /\ EmittedPolicies(handled[i].headers) # {}
        /\ \A csp \in EmittedPolicies(handled[i].headers) :
            LET ds == Directives(csp)
            IN  /\ \A c \in {"script", "style"} :
                    LET named == Named(ds, CategoryDirective[c])
                    IN  /\ Len(named) = 1
                        /\ Sources(named[1])
                            = Append(allowlists[c], NonceSource(handled[i].nonce))
                /\ \A k \in 1..Len(ds) :
                    (~HasName(ds[k], "script-src") /\ ~HasName(ds[k], "style-src"))
                        => ~Contains(ds[k], "nonce-")

\* A response whose style-src lists 'self', the font stylesheet host and the
\* nonce, in this order, the nonce not being the all-zero one.
WitNonceLastSource ==
    \E i \in Responses :
        /\ handled[i].nonce # "AAAAAAAAAAAAAAAAAAAAAA=="
        /\ \A csp \in EmittedPolicies(handled[i].headers) :
            Contains(csp, "style-src 'self' https://fonts.googleapis.com 'nonce-"
                            \o handled[i].nonce \o "'; img-src")


(***************************************************************************)
(* C15. No policy emitted, whatever the nonce and the environment, holds   *)
(* 'unsafe-inline': neither as a source of a directive nor anywhere in the *)
(* header value.                                                           *)
(***************************************************************************)
InvNoUnsafeInline ==
    \A i \in Responses :
        /\ EmittedPolicies(handled[i].headers) # {}
        /\ \A csp \in EmittedPolicies(handled[i].headers) :
            /\ ~Contains(csp, "unsafe-inline")
            /\ LET ds == Directives(csp)
               IN  \A k \in 1..Len(ds) :
                    \A m \in 1..Len(Sources(ds[k])) :
                        Sources(ds[k])[m] # "'unsafe-inline'"

\* A production policy, sent report-only, whose style-src admits inline styles
\* by the nonce of the request.
WitNoUnsafeInline ==
    \E i \in Responses :
        /\ isProd
        /\ useReportOnly
        /\ HeadersHas(handled[i].headers, ReportOnlyName)
        /\ NonceSource(handled[i].nonce)
            \in {Sources(Named(Directives(HeadersGet(handled[i].headers, ReportOnlyName)),
                               "style-src")[1])[m] : m \in 1..3}


ExpectedHardening ==
    { <<"Referrer-Policy", "strict-origin-when-cross-origin">>,
      <<"X-Frame-Options", "DENY">>,
      <<"X-Content-Type-Options", "nosniff">>,
      <<"X-DNS-Prefetch-Control", "off">>,
      <<"Strict-Transport-Security", "max-age=63072000; includeSubDomains; preload">>,
      <<"X-Permitted-Cross-Domain-Policies", "none">>,
      <<"Cross-Origin-Resource-Policy", "same-origin">> }

ExpectedPermissions ==
    { <<"camera", "()">>, <<"microphone", "()">>, <<"geolocation", "()">>,
      <<"fullscreen", "(self)">>, <<"picture-in-picture", "(self)">> }

\* The entries of a Permissions-Policy value, each as <<feature, allowlist>>.
PermissionEntries(value) ==
    LET items == Split(value, ", ")
    IN  {Split(items[k], "=") : k \in 1..Len(items)}

InvHardeningHeaders ==
    \A i \in Responses :
        LET h == handled[i].headers
        IN  /\ \A p \in ExpectedHardening :
                HeadersHas(h, p[1]) /\ HeadersGet(h, p[1]) = p[2]
            /\ HeadersHas(h, "Permissions-Policy")
            /\ LET entries == PermissionEntries(HeadersGet(h, "Permissions-Policy"))
               IN  \A p \in ExpectedPermissions :
                    /\ p \in entries
                    /\ \A e \in entries : e[1] = p[1] => e = p

\* A response of a development process in report-only mode, with HSTS all the same.
WitHardeningHeaders ==
    \E i \in Responses :
        /\ ~isProd
        /\ useReportOnly
        /\ handled[i].nonce # "AAAAAAAAAAAAAAAAAAAAAA=="
        /\ HeadersHas(handled[i].headers, "strict-transport-security")
        /\ Len(HeadersGet(handled[i].headers, "Permissions-Policy")) > 0


(***************************************************************************)
(* C18. The policy of every response, in every mode, has the directives    *)
(* object-src 'none' and frame-ancestors 'none'; and the response to a     *)
(* request for / of a non-production process with no report URI and        *)
(* report-only off carries Strict-Transport-Security, X-Frame-Options      *)
(* DENY and a Content-Security-Policy header without                       *)
(* upgrade-insecure-requests.                                              *)
(***************************************************************************)
IsDirectiveOf(csp, directive) ==
    LET ds == Directives(csp)
    IN  \E k \in 1..Len(ds) : ds[k] = directive

InvDevelopmentRootResponse ==
    \A i \in Responses :
        LET h == handled[i].headers
        IN  /\ EmittedPolicies(h) # {}
            /\ \A csp \in EmittedPolicies(h) :
                /\ IsDirectiveOf(csp, "object-src 'none'")
                /\ IsDirectiveOf(csp, "frame-ancestors 'none'")
            /\ (handled[i].path = "/" /\ ~isProd /\ ~Truthy(cspReportUri)
                    /\ ~useReportOnly)
                => /\ HeadersHas(h, "Strict-Transport-Security")
                   /\ HeadersHas(h, "X-Frame-Options")
                   /\ HeadersGet(h, "X-Frame-Options") = "DENY"
                   /\ HeadersHas(h, "Content-Security-Policy")
                   /\ ~Contains(HeadersGet(h, "Content-Security-Policy"),
                                "upgrade-insecure-requests")

\* The response of the scenario: GET / answered by a development process with
\* CSP_REPORT_URI unset and report-only off.
WitDevelopmentRootResponse ==
    \E i \in Responses :
        /\ handled[i].path = "/"
        /\ ~isProd
        /\ cspReportUri = Undefined
        /\ ~useReportOnly
        /\ HeadersHas(handled[i].headers, "Content-Security-Policy")


(***************************************************************************)
(* generateNonce called on its own, with byte lengths from 0 to            *)
(* MaxBytesLength and with the default.                                    *)
(***************************************************************************)
BytesLengths == 0..MaxBytesLength \cup {DefaultBytesLength}

InitNonce ==
    /\ isProd = FALSE
    /\ cspReportUri = Undefined
    /\ useReportOnly = FALSE
    /\ allowlists = ShippedAllowlists
    /\ handled = <<>>
    /\ rngCalls = <<>>
    /\ issued = <<>>
    /\ inflight = {}
    /\ InitClient

\* generateNonce(n): the array of n bytes is filled and encoded, or
\* crypto.getRandomValues throws and nothing is returned.
CallGenerateNonce ==
    /\ Len(rngCalls) < MaxNonceCalls
    /\ \E n \in BytesLengths :
        \E rng \in RngOutcomes(n) :
            /\ rngCalls' = Append(rngCalls, [request |-> 0, ok |-> rng.ok,
                                              bytes |-> rng.bytes])
            /\ issued' = IF rng.ok
                          THEN Append(issued, [bytesLength |-> n,
                                               nonce |-> GenerateNonce(rng.bytes)])
                          ELSE issued
    /\ UNCHANGED <<moduleState, handled, inflight>>
    /\ UNCHANGED clientVars

NextNonce == CallGenerateNonce

SpecNonce == InitNonce /\ [][NextNonce]_vars

(***************************************************************************)
(* C19. Every value generateNonce(n) returns has ceil(n/3)*4 characters,   *)
(* each of them a letter, a digit, +, / or = (so none is a semicolon, a    *)
(* quote or white space); for n = 16 that is 24 characters.                *)
(***************************************************************************)
NonceCharacters == "ABCDEFGHIJKLMNOPQRSTUVWXYZabcdefghijklmnopqrstuvwxyz0123456789+/="

CeilDiv(a, b) == (a + b - 1) \div b

InvNonceShape ==
    \A k \in 1..Len(issued) :
        LET n == issued[k].bytesLength
            s == issued[k].nonce
        IN  /\ Len(s) = CeilDiv(n, 3) * 4
            /\ \A c \in 1..Len(s) :
                /\ Contains(NonceCharacters, CharAt(s, c))
                /\ CharAt(s, c) \notin {";", "'", "\"", " ", "\t", "\n", "\r"}
            /\ n = 16 => Len(s) = 24

\* A nonce of the default length, padded with ==, and one of 7 bytes spelt with
\* 12 characters.
WitNonceShape ==
    \E j, k \in 1..Len(issued) :
        /\ issued[j].bytesLength = 16
        /\ Len(issued[j].nonce) = 24
        /\ EndsWith(issued[j].nonce, "==")
        /\ issued[j].nonce # "AAAAAAAAAAAAAAAAAAAAAA=="
        /\ issued[k].bytesLength = 5
        /\ Len(issued[k].nonce) = 8


(***************************************************************************)
(* middleware() statement by statement, with several calls under way at    *)
(* once (request-parallel execution): every call has its own frame of      *)
(* locals (nonce, requestHeaders, csp, res), and the calls interleave in    *)
(* any order.  A request takes its place in `handled` when it arrives and  *)
(* its entry is filled in when its call returns or throws.                 *)
(***************************************************************************)
\* The entry of a request whose call has not ended yet.
Pending(req) ==
    [path |-> req.path, inbound |-> req.headers, matched |-> TRUE,
     outcome |-> "running", kind |-> "", nonce |-> "",
     forwarded |-> NoHeaders, headers |-> NoHeaders]

\* The frame of a call that has just been entered.
Frame(id, req) ==
    [id |-> id, req |-> req, pc |-> "generateNonce", nonce |-> "",
     requestHeaders |-> NoHeaders, csp |-> "", resHeaders |-> NoHeaders]

\* A bug middleware could have: `nonce` declared at module level, so that a call
\* reads what the latest generateNonce of any call assigned.
NonceOf_ModuleLevel(f) == issued[Len(issued)].nonce

\* The local `nonce` of the call (line 208), as lines 213, 223 and 226 read it.
NonceOf(f) == f.nonce

\* A development process that reports nothing, and a production process in
\* report-only mode with a report URI.
ConcurrentConfigs ==
    { [isProd |-> FALSE, cspReportUri |-> Undefined, useReportOnly |-> FALSE],
      [isProd |-> TRUE, cspReportUri |-> Some("https://example.test/r"),
       useReportOnly |-> TRUE] }

\* The requests that overlap: those of the client that sends an x-csp-nonce of
\* its own.
ConcurrentRequests == {req \in Requests : HeadersHas(req.headers, "x-csp-nonce")}

InitConcurrent ==
    /\ \E c \in ConcurrentConfigs :
        /\ isProd = c.isProd
        /\ cspReportUri = c.cspReportUri
        /\ useReportOnly = c.useReportOnly
    /\ allowlists = ShippedAllowlists
    /\ handled = <<>>
    /\ rngCalls = <<>>
    /\ issued = <<>>
    /\ inflight = {}
    /\ InitClient

\* The platform calls middleware(req) for a request the matcher accepts.
Enter ==
    /\ Len(handled) < MaxInFlight
    /\ \E req \in ConcurrentRequests :
        /\ MatcherAccepts(req.path)
        /\ handled' = Append(handled, Pending(req))
        /\ inflight' = inflight \cup {Frame(Len(handled) + 1, req)}
    /\ UNCHANGED <<moduleState, rngCalls, issued>>
    /\ UNCHANGED clientVars

\* Line 208: const nonce = generateNonce(); the call ends here when
\* crypto.getRandomValues throws.
StepGenerateNonce ==
    /\ \E f \in inflight :
        /\ f.pc = "generateNonce"
        /\ \E rng \in RngOutcomes(DefaultBytesLength) :
            /\ rngCalls' = Append(rngCalls, [request |-> f.id, ok |-> rng.ok,
                                              bytes |-> rng.bytes])
            /\ IF rng.ok
               THEN /\ issued' = Append(issued, [bytesLength |-> DefaultBytesLength,
                                                 nonce |-> GenerateNonce(rng.bytes)])
                    /\ inflight' = (inflight \ {f})
                        \cup {[f EXCEPT !.nonce = GenerateNonce(rng.bytes),
                                        !.pc = "forward"]}
                    /\ UNCHANGED handled
               ELSE /\ inflight' = inflight \ {f}
                    /\ handled' = [handled EXCEPT ![f.id].outcome = "threw"]
                    /\ UNCHANGED issued
    /\ UNCHANGED moduleState
    /\ UNCHANGED clientVars

\* Lines 212-220: the request headers are copied, x-csp-nonce is set on the copy.
StepForward ==
    /\ \E f \in inflight :
        /\ f.pc = "forward"
        /\ inflight' = (inflight \ {f})
            \cup {[f EXCEPT !.requestHeaders = ForwardedHeaders(f.req.headers, NonceOf(f)),
                            !.pc = "buildCSP"]}
    /\ UNCHANGED <<moduleState, handled, rngCalls, issued>>
    /\ UNCHANGED clientVars

\* Line 223: const csp = buildCSP(nonce).
StepBuildCSP ==
    /\ \E f \in inflight :
        /\ f.pc = "buildCSP"
        /\ inflight' = (inflight \ {f})
            \cup {[f EXCEPT !.csp = BuildCSP(NonceOf(f)), !.pc = "applySecurityHeaders"]}
    /\ UNCHANGED <<moduleState, handled, rngCalls, issued>>
    /\ UNCHANGED clientVars

\* Line 226: applySecurityHeaders(res, csp, nonce).
StepApplySecurityHeaders ==
    /\ \E f \in inflight :
        /\ f.pc = "applySecurityHeaders"
        /\ inflight' = (inflight \ {f})
            \cup {[f EXCEPT !.resHeaders = ApplySecurityHeaders(NoHeaders, f.csp, NonceOf(f)),
                            !.pc = "return"]}
    /\ UNCHANGED <<moduleState, handled, rngCalls, issued>>
    /\ UNCHANGED clientVars

\* Line 229: return res.
StepReturn ==
    /\ \E f \in inflight :
        /\ f.pc = "return"
        /\ inflight' = inflight \ {f}
        /\ handled' = [handled EXCEPT ![f.id] =
                          [path |-> f.req.path, inbound |-> f.req.headers,
                           matched |-> TRUE, outcome |-> "response", kind |-> "next",
                           nonce |-> f.nonce, forwarded |-> f.requestHeaders,
                           headers |-> f.resHeaders]]
    /\ UNCHANGED <<moduleState, rngCalls, issued>>
    /\ UNCHANGED clientVars

NextConcurrent ==
    \/ Enter
    \/ StepGenerateNonce
    \/ StepForward
    \/ StepBuildCSP
    \/ StepApplySecurityHeaders
    \/ StepReturn

SpecConcurrent == InitConcurrent /\ [][NextConcurrent]_vars


(***************************************************************************)
(* C20. However the calls of middleware() interleave, the response to a    *)
(* request carries in its policy, in its x-csp-nonce header and in the     *)
(* x-csp-nonce request header forwarded the nonce made of the random bytes *)
(* drawn for that request, and no step changes isProd, cspReportUri,       *)
(* useReportOnly or the arrays.                                            *)
(***************************************************************************)
PropRequestsIsolated ==
    /\ [](\A i \in Responses :
            /\ Cardinality(RngCallsOf(i)) = 1
            /\ \A k \in RngCallsOf(i) :
                LET own == GenerateNonce(rngCalls[k].bytes)
                    h == handled[i].headers
                    f == handled[i].forwarded
                IN  /\ rngCalls[k].ok
                    /\ HeadersHas(h, "x-csp-nonce")
                    /\ HeadersGet(h, "x-csp-nonce") = own
                    /\ HeadersHas(f, "x-csp-nonce")
                    /\ HeadersGet(f, "x-csp-nonce") = own
                    /\ EmittedPolicies(h) # {}
                    /\ \A csp \in EmittedPolicies(h) : PolicyNonceIs(csp, own))
    /\ [][moduleState' = moduleState]_vars

\* The second request has been answered while the call for the first, which
\* drew another nonce before the second drew its own, is still under way.
WitRequestsIsolated ==
    /\ Len(handled) >= 2
    /\ handled[1].outcome = "running"
    /\ handled[2].outcome = "response"
    /\ Len(rngCalls) >= 2
    /\ rngCalls[1].request = 1
    /\ \E f \in inflight :
        /\ f.id = 1
        /\ f.pc = "forward"
        /\ f.nonce # handled[2].nonce


(***************************************************************************)
(* Two requests to one process, in every configuration of the environment: *)
(* a page asked for by a browser, a page asked for by a client that sends  *)
(* a cookie and an x-csp-nonce of its own, and a page asked for by a       *)
(* client whose x-csp-nonce is a value the random source can yield.        *)
(***************************************************************************)
\* The header of a client that guessed a nonce.
GuessedHeaders ==
    HeadersSet(BrowserHeaders, "x-csp-nonce",
               GenerateNonce(RandomFill(1, DefaultBytesLength)))

PairRequests ==
    {req \in Requests : MatcherAccepts(req.path)}
        \cup {[path |-> "/contact", headers |-> GuessedHeaders]}

HandlePair == Handle(PairRequests, 2)

NextPair == HandlePair

SpecPair == Init /\ [][NextPair]_vars

\* A header value with every occurrence of the nonce blanked.
Redact(value, nonce) == Join(Split(value, nonce), "<nonce>")

\* The response headers of the i-th request, the nonce of the request blanked.
RedactedHeaders(i) ==
    [n \in DOMAIN handled[i].headers |->
        Redact(handled[i].headers[n], handled[i].nonce)]

(***************************************************************************)
(* C21. Any two responses of a process have the same header names and,     *)
(* the nonce of each blanked, the same header values, whatever the paths,  *)
(* headers and cookies of their requests.                                  *)
(***************************************************************************)
InvPostureIndependentOfRequest ==
    \A i, j \in Responses :
        /\ DOMAIN handled[i].headers = DOMAIN handled[j].headers
        /\ RedactedHeaders(i) = RedactedHeaders(j)

\* Two responses of a production process to requests that differ in path,
\* headers and cookie, with different nonces.
WitPostureIndependentOfRequest ==
    \E i, j \in Responses :
        /\ isProd
        /\ handled[i].path # handled[j].path
        /\ HeadersHas(handled[i].inbound, "cookie")
        /\ ~HeadersHas(handled[j].inbound, "cookie")
        /\ handled[i].nonce # handled[j].nonce


(***************************************************************************)
(* C22. Every response middleware() returns is NextResponse.next (never a  *)
(* redirect, a rewrite or a response of its own), and the request headers  *)
(* it forwards are the inbound ones with x-csp-nonce set: no other header  *)
(* is added, dropped or changed.                                           *)
(***************************************************************************)
InvPassThrough ==
    \A i \in Responses :
        LET in == handled[i].inbound
            out == handled[i].forwarded
        IN  /\ handled[i].kind = "next"
            /\ DOMAIN out = DOMAIN in \cup {"x-csp-nonce"}
            /\ \A n \in DOMAIN in \ {"x-csp-nonce"} : out[n] = in[n]

\* A request with a cookie and an Accept header, answered: both are forwarded.
WitPassThrough ==
    \E i \in Responses :
        /\ HeadersHas(handled[i].inbound, "cookie")
        /\ HeadersHas(handled[i].forwarded, "cookie")
        /\ HeadersGet(handled[i].forwarded, "cookie") = "sid=1"
        /\ HeadersGet(handled[i].forwarded, "accept") = "text/html"


(***************************************************************************)
(* C24. As claimed: when the inbound request carries an x-csp-nonce, the   *)
(* value forwarded is the nonce generated for the request and is not the   *)
(* client's value, and no response header contains the client's value.     *)
(***************************************************************************)
ClientNonce(i) == HeadersGet(handled[i].inbound, "x-csp-nonce")

MaxCaches == 2

StringArg(s) == [type |-> "string", value |-> s]
UndefinedArg == [type |-> "undefined", value |-> ""]
NumberArg == [type |-> "number", value |-> ""]

\* The characters String.prototype.trim strips, as far as a TLA+ string can
\* hold them.
JsWhitespace == {" ", "\t", "\n", "\r", "\f"}

RECURSIVE Trim(_)
Trim(s) ==
    IF Len(s) = 0 THEN s
    ELSE IF CharAt(s, 1) \in JsWhitespace THEN Trim(Tail(s))
    ELSE IF CharAt(s, Len(s)) \in JsWhitespace THEN Trim(SubSeq(s, 1, Len(s) - 1))
    ELSE s

MUI_EMOTION_CACHE_KEY == "mui"

\* A bug the character class could have: the padding character left out.
BASE64_REGEX_NoPadding ==
    "ABCDEFGHIJKLMNOPQRSTUVWXYZabcdefghijklmnopqrstuvwxyz0123456789+/"

\* The character class of BASE64_REGEX (line 26).
BASE64_REGEX == "ABCDEFGHIJKLMNOPQRSTUVWXYZabcdefghijklmnopqrstuvwxyz0123456789+/="

\* BASE64_REGEX.test(s): one or more characters, each of the class, from the
\* start of s to its end.
Base64RegexTest(s) ==
    /\ Len(s) >= 1
    /\ \A i \in 1..Len(s) : Contains(BASE64_REGEX, CharAt(s, i))

\* sanitizeNonce (lines 33-40).
SanitizeNonce(arg) ==
    IF arg.type # "string" THEN Undefined
    ELSE LET trimmed == Trim(arg.value)
         IN  IF Len(trimmed) = 0 THEN Undefined
             ELSE IF ~Base64RegexTest(trimmed) THEN Undefined
             ELSE Some(trimmed)

\* createEmotionCache (lines 55-65): the options handed to Emotion's createCache.
CreateEmotionCache(arg) ==
    [key |-> MUI_EMOTION_CACHE_KEY, nonce |-> SanitizeNonce(arg), prepend |-> TRUE]

\* The arguments createEmotionCache is called with: nothing, a value that is
\* not a string, and strings that are empty, blank, Base64, Base64 between
\* white space, and not Base64.
NonceArguments ==
    {UndefinedArg, NumberArg} \cup
    {StringArg(s) : s \in {"", " ", "\t\n", "YWJj", "YQ==", "a+/9", " YWJj", "YWJj ",
                           "\tYQ==\r\n", "YW Jj", "YWJj-_", "YW'Jj", "YWJj;", "=",
                           GenerateNonce(RandomFill(1, DefaultBytesLength))}}

\* No request, no configuration of interest: the middleware at rest.
InitServer ==
    /\ isProd = FALSE
    /\ cspReportUri = Undefined
    /\ useReportOnly = FALSE
    /\ allowlists = ShippedAllowlists
    /\ handled = <<>>
    /\ rngCalls = <<>>
    /\ issued = <<>>
    /\ inflight = {}

InitEmotion == InitServer /\ InitClient

CallCreateEmotionCache ==
    /\ Len(caches) < MaxCaches
    /\ \E arg \in NonceArguments :
        caches' = Append(caches, [argument |-> arg, cache |-> CreateEmotionCache(arg)])
    /\ UNCHANGED <<serverVars, rendered, mediaVars, themeVars, registryVars>>

NextEmotion == CallCreateEmotionCache

SpecEmotion == InitEmotion /\ [][NextEmotion]_vars

(***************************************************************************)
(* C25: sanitizeNonce never transforms a nonce: for every input it returns *)
(* either undefined or a string identical to the input, inputs with        *)
(* leading or trailing white space included.                               *)
(* Refuted by a Base64 string between white space: the trimmed string is   *)
(* returned, which is not the input.                                       *)
(***************************************************************************)
InvSanitizeNonceIdentity ==
    \A k \in 1..Len(caches) :
        LET arg == caches[k].argument
            result == caches[k].cache.nonce
        IN  \/ result = Undefined
            \/ arg.type = "string" /\ result = Some(arg.value)

(***************************************************************************)
(* generateNonce and createEmotionCache together: every nonce              *)
(* generateNonce returns is handed, in the order of issue, to              *)
(* createEmotionCache.                                                     *)
(***************************************************************************)
CacheIssuedNonce ==
    /\ Len(caches) < Len(issued)
    /\ LET arg == StringArg(issued[Len(caches) + 1].nonce)
       IN  caches' = Append(caches, [argument |-> arg, cache |-> CreateEmotionCache(arg)])
    /\ UNCHANGED <<serverVars, rendered, mediaVars, themeVars, registryVars>>

NextNonceCache == CallGenerateNonce \/ CacheIssuedNonce

SpecNonceCache == InitNonce /\ [][NextNonceCache]_vars

(***************************************************************************)
(* C26: every nonce generateNonce(n) returns for n >= 1 is accepted by     *)
(* sanitizeNonce and returned unchanged: the nonce createEmotionCache      *)
(* gives to Emotion is the one nonce of the policy built for it.           *)
(***************************************************************************)
InvGeneratedNonceAccepted ==
    \A k \in 1..Len(caches) :
        issued[k].bytesLength >= 1 =>
            /\ caches[k].argument = StringArg(issued[k].nonce)
            /\ SanitizeNonce(caches[k].argument) = Some(issued[k].nonce)
            /\ caches[k].cache.nonce = Some(issued[k].nonce)
            /\ PolicyNonceIs(BuildCSP(issued[k].nonce), caches[k].cache.nonce.value)

\* Caches were created for a padded 24-character nonce of the default length
\* and for an unpadded nonce, and each holds its nonce.
WitGeneratedNonceAccepted ==
    \E j, k \in 1..Len(caches) :
        /\ issued[j].bytesLength = DefaultBytesLength
        /\ EndsWith(issued[j].nonce, "==")
        /\ caches[j].cache.nonce = Some(issued[j].nonce)
        /\ issued[k].bytesLength = 3
        /\ ~Contains(issued[k].nonce, "=")
        /\ caches[k].cache.nonce = Some(issued[k].nonce)

(***************************************************************************)
(* Server rendering of a document for a request middleware() passed on.    *)
(*                                                                         *)
(* The repository holds the root layout in three versions and the          *)
(* ThemeRegistry in two; a build has one of each. An element is a record   *)
(* of its tag, the component that renders it and its nonce attribute,      *)
(* which React leaves out when the property is undefined.                  *)
(***************************************************************************)
Element(tag, by, nonce) == [tag |-> tag, by |-> by, nonce |-> nonce]

\* headers().get(name): the value, or null (here Undefined) when absent.
ReadHeader(h, name) == IF HeadersHas(h, name) THEN Some(HeadersGet(h, name)) ELSE Undefined

\* ThemeRegistry as of src/unnamed/part_007 (lines 58-78): the style block of
\* the flushed names, with nonce={options?.nonce}.
ThemeRegistryMemo(nonce, names) ==
    IF Len(names) = 0 THEN <<>> ELSE <<Element("style", "ThemeRegistry", nonce)>>

\* ThemeRegistry as of src/unnamed/part_006 (lines 78-98): the style block has
\* no nonce property.
ThemeRegistryState(nonce, names) ==
    IF Len(names) = 0 THEN <<>> ELSE <<Element("style", "ThemeRegistry", Undefined)>>

Registries == {"part_006", "part_007"}

ThemeRegistry(registry, nonce, names) ==
    IF registry = "part_007" THEN ThemeRegistryMemo(nonce, names)
    ELSE ThemeRegistryState(nonce, names)

\* The root layout as of src/unnamed/part_002 (lines 192-222): the inline theme
\* bootstrap script, which has no nonce property, and no ThemeRegistry.
RootLayoutBootstrap(h, registry, names) == <<Element("script", "RootLayout", Undefined)>>

\* The root layout as of src/unnamed/part_003 (lines 45-72): no inline element.
RootLayoutClient(h, registry, names) == <<>>

\* The root layout as of src/unnamed/part_004 (lines 55-82): the nonce is the
\* x-csp-nonce request header unless that is missing or blank; a meta element
\* exposes it and ThemeRegistry gets it.
RootLayoutRegistry(h, registry, names) ==
    LET rawNonce == ReadHeader(h, "x-csp-nonce")
        nonce == IF rawNonce.defined /\ Len(Trim(rawNonce.value)) > 0
                 THEN rawNonce ELSE Undefined
    IN  (IF Truthy(nonce) THEN <<Element("meta", "RootLayout", Undefined)>> ELSE <<>>)
        \o ThemeRegistry(registry, nonce, names)

Layouts == {"part_002", "part_003", "part_004"}

RootLayout(layout, h, registry, names) ==
    IF layout = "part_002" THEN RootLayoutBootstrap(h, registry, names)
    ELSE IF layout = "part_003" THEN RootLayoutClient(h, registry, names)
    ELSE RootLayoutRegistry(h, registry, names)

\* Head (src/unnamed/part_005, lines 22-31 and 128-131): the csp-nonce meta
\* element and the JSON-LD script with nonce={nonce}.
HeadComponent(h) ==
    LET nonce == ReadHeader(h, "x-csp-nonce")
    IN  (IF Truthy(nonce) THEN <<Element("meta", "Head", Undefined)>> ELSE <<>>)
        \o <<Element("script", "Head", nonce)>>

\* What flush() hands to the style block: nothing, or the names of styles.
FlushedNames == {<<>>, <<"mui-style-1">>, <<"mui-global-1", "mui-style-1">>}

HandleRendered == Handle({req \in Requests : MatcherAccepts(req.path)}, 1)

\* The document of the latest request is rendered from the request headers
\* middleware() forwarded.
RenderDocument ==
    /\ Len(rendered) < Len(handled)
    /\ handled[Len(rendered) + 1].outcome = "response"
    /\ \E layout \in Layouts, registry \in Registries, names \in FlushedNames :
        LET h == handled[Len(rendered) + 1].forwarded
        IN  rendered' = Append(rendered,
                [request |-> Len(rendered) + 1, layout |-> layout, registry |-> registry,
                 elements |-> HeadComponent(h) \o RootLayout(layout, h, registry, names)])
    /\ UNCHANGED <<serverVars, caches, mediaVars, themeVars, registryVars>>

NextRender == HandleRendered \/ RenderDocument

SpecRender == Init /\ [][NextRender]_vars

\* The inline style and script elements of a document.
InlineElements(doc) ==
    {i \in 1..Len(doc.elements) : doc.elements[i].tag \in {"style", "script"}}

(***************************************************************************)
(* C23: every inline style or script element that server rendering         *)
(* generates for a request (the Emotion style block of ThemeRegistry, the  *)
(* theme bootstrap script of the root layout, the JSON-LD script of the    *)
(* head) carries a nonce attribute equal to the x-csp-nonce value          *)
(* forwarded for that request.                                             *)
(* Refuted by the bootstrap script of the root layout and by the style     *)
(* block of the ThemeRegistry of part_006, which have no nonce attribute.  *)
(***************************************************************************)
InvInlineElementsCarryNonce ==
    \A k \in 1..Len(rendered) :
        LET doc == rendered[k]
            forwarded == handled[doc.request].forwarded
        IN  \A i \in InlineElements(doc) :
                doc.elements[i].nonce = ReadHeader(forwarded, "x-csp-nonce")

(***************************************************************************)
(* usePrefersDark (src/web/theme/usePrefersDark.ts).                       *)
(*                                                                         *)
(* The code runs on the server (no window, no document), in a browser      *)
(* without window.matchMedia, in a browser whose MediaQueryList has only   *)
(* addListener/removeListener, or in one that has addEventListener and     *)
(* removeEventListener as well. A listener is a record of the handler (the *)
(* closure of one subscribe call, named by the number of the call) and of  *)
(* the method that registered it.                                          *)
(***************************************************************************)
\* subscribe() calls in one behaviour.
MaxSubscriptions == 2
\* Changes of the system colour scheme in one behaviour.
MaxChanges == 2

Environments == {"server", "noMatchMedia", "legacy", "modern"}

\* typeof window !== 'undefined', typeof document !== 'undefined'.
HasWindow == environment # "server"
HasDocument == environment # "server"
\* typeof window.matchMedia === 'function'.
HasMatchMedia == environment \in {"legacy", "modern"}

\* The methods the MediaQueryList of the environment has.
MqlMethods ==
    IF environment = "modern"
    THEN {"addEventListener", "removeEventListener", "addListener", "removeListener"}
    ELSE IF environment = "legacy" THEN {"addListener", "removeListener"}
    ELSE {}

\* Values of the data-theme attribute of the document element.
DataThemes == {Undefined, Some("dark"), Some("light"), Some("auto")}

\* readBootstrappedTheme (lines 37-41).
ReadBootstrappedTheme ==
    IF ~HasDocument THEN Undefined
    ELSE IF dataTheme = Some("dark") \/ dataTheme = Some("light") THEN dataTheme
    ELSE Undefined

\* getSnapshot (lines 48-62).
GetSnapshot ==
    IF ~HasWindow THEN FALSE
    ELSE IF Truthy(ReadBootstrappedTheme) THEN ReadBootstrappedTheme = Some("dark")
    ELSE IF HasMatchMedia THEN matches
    ELSE FALSE

\* getServerSnapshot (lines 69-72).
GetServerSnapshot == FALSE

\* The method subscribe registers its handler with (lines 99-114), "" when it
\* registers nothing (lines 82-87).
RegisteringMethod ==
    IF ~HasWindow \/ ~HasMatchMedia THEN ""
    ELSE IF {"addEventListener", "removeEventListener"} \subseteq MqlMethods
         THEN "addEventListener"
    ELSE "addListener"

\* A bug the cleanup could have: the modern method whatever registered the handler.
CleanupMethod_AlwaysModern(registeredWith) ==
    IF registeredWith = "" THEN "" ELSE "removeEventListener"

\* The method the returned cleanup calls (lines 105-107, 117-119), "" for the
\* no-op cleanup (lines 84-86).
CleanupMethod(registeredWith) ==
    IF registeredWith = "addEventListener" THEN "removeEventListener"
    ELSE IF registeredWith = "addListener" THEN "removeListener"
    ELSE ""

\* mql.removeEventListener('change', handler) or mql.removeListener(handler): the
\* handler leaves the list; a method the MediaQueryList has not is a TypeError
\* and removes nothing.
RemoveVia(method, handler) ==
    IF method \in MqlMethods
    THEN {l \in listeners : l.handler # handler}
    ELSE listeners

\* The state subscribe(onStoreChange) leaves: the handler registered, and the
\* cleanup it returns kept with the subscription.
Subscribed(onStoreChange) ==
    LET handler == Len(subscriptions) + 1
        method == RegisteringMethod
    IN  /\ listeners' = IF method = "" THEN listeners
                        ELSE listeners \cup {[handler |-> handler, method |-> method]}
        /\ subscriptions' = Append(subscriptions,
                                   [onStoreChange |-> onStoreChange, registeredWith |-> method,
                                    cleanup |-> CleanupMethod(method), active |-> TRUE])

InitMedia ==
    /\ InitServer
    /\ caches = <<>>
    /\ rendered = <<>>
    /\ environment \in Environments
    /\ dataTheme \in DataThemes
    /\ matches \in BOOLEAN
    /\ listeners = {}
    /\ subscriptions = <<>>
    /\ notified = <<>>
    /\ mounted = FALSE
    /\ initialThemeFromDom = Undefined
    /\ systemPrefersDark = FALSE
    /\ isDark = FALSE
    /\ stale = FALSE
    /\ inserted = {}
    /\ insertedRef = <<>>
    /\ insertions = <<>>
    /\ flushes = <<>>

\* subscribe(onStoreChange), called by a store consumer.
Subscribe ==
    /\ Len(subscriptions) < MaxSubscriptions
    /\ Subscribed(Len(subscriptions) + 1)
    /\ UNCHANGED <<serverVars, renderVars, environment, dataTheme, matches, notified,
                   themeVars, registryVars>>

\* The cleanup function of an active subscription is called.
Unsubscribe ==
    /\ \E k \in 1..Len(subscriptions) :
        /\ subscriptions[k].active
        /\ listeners' = IF subscriptions[k].cleanup = "" THEN listeners
                        ELSE RemoveVia(subscriptions[k].cleanup, k)
        /\ subscriptions' = [subscriptions EXCEPT ![k].active = FALSE]
    /\ UNCHANGED <<serverVars, renderVars, environment, dataTheme, matches, notified,
                   themeVars, registryVars>>

\* The system colour scheme flips: the MediaQueryList dispatches a change event
\* and every registered handler calls its onStoreChange.
ChangeEvent ==
    /\ HasMatchMedia
    /\ Len(notified) < MaxChanges
    /\ matches' = ~matches
    /\ LET called == {subscriptions[l.handler].onStoreChange : l \in listeners}
       IN  /\ notified' = Append(notified,
                  [called |-> called,
                   active |-> {subscriptions[k].onStoreChange :
                                 k \in {j \in 1..Len(subscriptions) : subscriptions[j].active}}])
           /\ stale' = (stale \/ (mounted /\ called # {}))
    /\ UNCHANGED <<serverVars, renderVars, environment, dataTheme, listeners, subscriptions,
                   mounted, initialThemeFromDom, systemPrefersDark, isDark, registryVars>>

NextMedia == Subscribe \/ Unsubscribe \/ ChangeEvent

SpecMedia == InitMedia /\ [][NextMedia]_vars

(***************************************************************************)
(* C27: the function subscribe returns removes exactly the listener that   *)
(* subscribe registered, through the method matching the one that          *)
(* registered it; after any sequence of subscribe and unsubscribe calls no *)
(* listener of an unsubscribed subscription is registered; while a         *)
(* subscription is active every media-query change event calls its         *)
(* onStoreChange, and after unsubscribe no change event calls it.          *)
(***************************************************************************)
InvCleanupRemovesOwnListener ==
    /\ \A k \in 1..Len(subscriptions) :
        /\ subscriptions[k].registeredWith = "addEventListener"
               => subscriptions[k].cleanup = "removeEventListener"
        /\ subscriptions[k].registeredWith = "addListener"
               => subscriptions[k].cleanup = "removeListener"
    /\ HasMatchMedia =>
        listeners = {[handler |-> k, method |-> subscriptions[k].registeredWith] :
                        k \in {j \in 1..Len(subscriptions) : subscriptions[j].active}}
    /\ ~HasMatchMedia => listeners = {}
    /\ \A e \in 1..Len(notified) : notified[e].called = notified[e].active

\* In a browser with only the legacy methods, two subscriptions were made, one
\* was cancelled, and a change event then called the other and only the other.
WitCleanupRemovesOwnListener ==
    /\ environment = "legacy"
    /\ Len(subscriptions) = 2
    /\ ~subscriptions[1].active
    /\ subscriptions[1].cleanup = "removeListener"
    /\ subscriptions[2].active
    /\ listeners = {[handler |-> 2, method |-> "addListener"]}
    /\ Len(notified) = 2
    /\ notified[1].called = {1, 2}
    /\ notified[2].called = {2}

(***************************************************************************)
(* ThemeProviderClient (src/web/theme/ThemeProviderClient.tsx, lines       *)
(* 23-51), with the part React plays: useSyncExternalStore returns         *)
(* getServerSnapshot() on the server and while hydrating, getSnapshot()    *)
(* otherwise, subscribes on commit, and renders again when the snapshot is *)
(* no longer the one it returned; an effect runs after the render whose    *)
(* dependencies changed.                                                   *)
(***************************************************************************)
\* initialThemeFromDom === 'dark' || initialThemeFromDom === 'light' (line 44).
IsExplicit(theme) == theme = Some("dark") \/ theme = Some("light")

\* document.documentElement.getAttribute('data-theme'), null without a document
\* (lines 28-30).
ThemeFromDom == IF HasDocument THEN dataTheme ELSE Undefined

\* A bug the initializer could have: the attribute not consulted.
InitialIsDark_IgnoresDom(fromDom, prefersDark) == prefersDark

\* The initializer of the isDark state (lines 33-38).
InitialIsDark(fromDom, prefersDark) ==
    IF fromDom = Some("dark") THEN TRUE
    ELSE IF fromDom = Some("light") THEN FALSE
    ELSE prefersDark

\* The effect (lines 42-51): the value of isDark once it has run.
EffectIsDark(fromDom, prefersDark, dark) ==
    IF IsExplicit(fromDom) THEN dark
    ELSE IF prefersDark # dark THEN prefersDark
    ELSE dark

\* The first render and its commit: on the server a render with the server
\* snapshot and nothing more; in a browser the state is initialised, the hook
\* subscribes, the effect runs, and a render is due when the snapshot has moved
\* on from the one returned.
Mount ==
    /\ ~mounted
    /\ \E hydrating \in BOOLEAN :
        LET snapshot == IF ~HasWindow \/ hydrating THEN GetServerSnapshot ELSE GetSnapshot
            dark == InitialIsDark(ThemeFromDom, snapshot)
        IN  /\ mounted' = TRUE
            /\ initialThemeFromDom' = ThemeFromDom
            /\ systemPrefersDark' = snapshot
            /\ isDark' = IF HasWindow THEN EffectIsDark(ThemeFromDom, snapshot, dark) ELSE dark
            /\ stale' = (HasWindow /\ snapshot # GetSnapshot)
            /\ IF HasWindow THEN Subscribed(1)
               ELSE UNCHANGED <<listeners, subscriptions>>
    /\ UNCHANGED <<serverVars, renderVars, environment, dataTheme, matches, notified,
                   registryVars>>

\* React renders the component again after the store changed, and the effect
\* runs.
Rerender ==
    /\ mounted
    /\ stale
    /\ systemPrefersDark' = GetSnapshot
    /\ initialThemeFromDom' = ThemeFromDom
    /\ isDark' = EffectIsDark(ThemeFromDom, GetSnapshot, isDark)
    /\ stale' = FALSE
    /\ UNCHANGED <<serverVars, renderVars, mediaVars, mounted, registryVars>>

NextTheme == Mount \/ ChangeEvent \/ Rerender

SpecTheme == InitMedia /\ [][NextTheme]_vars

\* React does not leave a scheduled render undone.
SpecThemeLive == SpecTheme /\ WF_vars(Rerender)

(***************************************************************************)
(* C28: getSnapshot returns false whenever the environment is server-side  *)
(* or window.matchMedia is unavailable, whatever the data-theme attribute  *)
(* is; otherwise it returns whether the system prefers dark mode.          *)
(* getServerSnapshot always returns false.                                 *)
(* Refuted by a document whose data-theme is 'dark' or 'light': the        *)
(* attribute is returned in place of the system preference.                *)
(***************************************************************************)
InvSnapshotIsSystemPreference ==
    /\ GetServerSnapshot = FALSE
    /\ (mounted /\ ~stale) => systemPrefersDark = (HasWindow /\ HasMatchMedia /\ matches)

(***************************************************************************)
(* C29: if the data-theme attribute is 'dark' or 'light' at mount, isDark  *)
(* starts equal to (data-theme = 'dark') and no later change of the system *)
(* preference changes it; if the attribute is absent or has another value, *)
(* then after every change of the system preference isDark eventually      *)
(* equals the system preference.                                           *)
(***************************************************************************)
PropThemeFollowsAttributeOrSystem ==
    /\ []((mounted /\ IsExplicit(initialThemeFromDom))
            => isDark = (initialThemeFromDom = Some("dark")))
    /\ [][(mounted /\ IsExplicit(initialThemeFromDom)) => isDark' = isDark]_vars
    /\ (mounted /\ ~IsExplicit(initialThemeFromDom) /\ HasMatchMedia /\ Len(notified) > 0)
            ~> (isDark = matches)

\* A component mounted on data-theme 'light' stayed light through two changes of
\* the system preference.
WitThemeFollowsAttributeOrSystem ==
    /\ mounted
    /\ initialThemeFromDom = Some("light")
    /\ Len(notified) = 2
    /\ notified[1].called = {1}
    /\ matches
    /\ ~stale
    /\ ~isDark

(***************************************************************************)
(* ThemeRegistry: the wrapped cache.insert and flush (src/unnamed/part_007 *)
(* lines 27-56, src/unnamed/part_006 lines 25-76).                         *)
(*                                                                         *)
(* Emotion's own insert is not part of the repository: whether it enters   *)
(* the name in cache.inserted is left open at every call.                  *)
(***************************************************************************)
\* cache.insert calls in one behaviour.
MaxInsertions == 3
\* flush() calls in one behaviour.
MaxFlushes == 2

\* serialized.name of the styles inserted: a global style, a theme-level style
\* and a component class.
StyleNames == {"mui-global-a", "mui-style-a", "mui-1x"}

\* A bug the wrapper could have: the name pushed whether or not the cache holds it.
PendingAfterInsert_Always(pending, held, name) == Append(pending, name)

\* insertedRef.current after the wrapped insert (part_007:38-41, part_006:49-52).
PendingAfterInsert(pending, held, name) ==
    IF name \notin held THEN Append(pending, name) ELSE pending

\* The filter of flush as of part_007 (lines 48-50).
KeptByMemo(name) == StartsWith(name, "mui-global") \/ StartsWith(name, "mui-style")

\* The filter of flush as of part_006 (line 70).
KeptByState(name) == ~StartsWith(name, "mui-global")

\* What flush() returns of the pending names.
Flushed(registry, pending) ==
    SelectSeq(pending, LAMBDA name : IF registry = "part_007" THEN KeptByMemo(name)
                                      ELSE KeptByState(name))

InitRegistry == InitServer /\ InitClient

\* cache.insert(selector, serialized, sheet, shouldCache), as wrapped.
Insert ==
    /\ Len(insertions) < MaxInsertions
    /\ \E name \in StyleNames, records \in BOOLEAN :
        /\ insertedRef' = PendingAfterInsert(insertedRef, inserted, name)
        /\ inserted' = IF records THEN inserted \cup {name} ELSE inserted
        /\ insertions' = Append(insertions,
                                [name |-> name, held |-> name \in inserted,
                                 pushed |-> Len(insertedRef') > Len(insertedRef),
                                 recorded |-> name \in inserted',
                                 flushesBefore |-> Len(flushes)])
    /\ UNCHANGED <<serverVars, renderVars, mediaVars, themeVars, flushes>>

\* flush(), called by the useServerInsertedHTML callback; a build has one
\* version of the registry.
Flush ==
    /\ Len(flushes) < MaxFlushes
    /\ \E registry \in Registries :
        /\ Len(flushes) > 0 => flushes[1].registry = registry
        /\ flushes' = Append(flushes, [registry |-> registry,
                                       returned |-> Flushed(registry, insertedRef)])
    /\ insertedRef' = <<>>
    /\ UNCHANGED <<serverVars, renderVars, mediaVars, themeVars, inserted, insertions>>

NextRegistry == Insert \/ Flush

SpecRegistry == InitRegistry /\ [][NextRegistry]_vars

\* The members of a sequence.
Range(seq) == {seq[i] : i \in 1..Len(seq)}

\* The names pushed between flush j - 1 and flush j.
PushedBefore(j) ==
    {insertions[i].name : i \in {n \in 1..Len(insertions) :
                                    insertions[n].pushed /\ insertions[n].flushesBefore = j - 1}}

(***************************************************************************)
(* C30: over any sequence of insertions and flushes, a style name is       *)
(* recorded as pending only when the cache has no entry for it, each flush *)
(* returns only names recorded since the previous flush and leaves the     *)
(* pending list empty, and, provided the underlying insert records the     *)
(* name in the cache, no style name is returned by two different flushes.  *)
(***************************************************************************)
PropRegistryFlushesOnce ==
    /\ [](\A i \in 1..Len(insertions) : insertions[i].pushed <=> ~insertions[i].held)
    /\ [](\A j \in 1..Len(flushes) : Range(flushes[j].returned) \subseteq PushedBefore(j))
    /\ [][Len(flushes') > Len(flushes) => insertedRef' = <<>>]_vars
    /\ []((\A i \in 1..Len(insertions) : insertions[i].recorded)
            => \A j, k \in 1..Len(flushes) :
                  /\ j # k => Range(flushes[j].returned) \cap Range(flushes[k].returned) = {}
                  /\ Cardinality(Range(flushes[j].returned)) = Len(flushes[j].returned))

\* A style was inserted and flushed, inserted again without becoming pending,
\* and the second flush returned another style only.
WitRegistryFlushesOnce ==
    /\ Len(flushes) = 2
    /\ flushes[1].registry = "part_007"
    /\ flushes[1].returned = <<"mui-style-a">>
    /\ flushes[2].returned = <<"mui-global-a">>
    /\ Len(insertions) = 3
    /\ \A i \in 1..3 : insertions[i].recorded
    /\ insertions[2].name = "mui-style-a"
    /\ insertions[2].held
    /\ ~insertions[2].pushed
    /\ insertedRef = <<>>

====
